---- MODULE Spec2Model ----
(***************************************************************************)
(* Model of the stock-prediction notebook (src/code.ipynb).                *)
(*                                                                         *)
(* The notebook is a sequence of code cells sharing one kernel.  The state *)
(* is the kernel's global variables and the CSV files under data/.  One    *)
(* action models one execution of one code cell; the grid search of cell 8 *)
(* is split into one action per loop iteration.                            *)
(*                                                                         *)
(* Numbers.  Raw prices are integers.  Every value computed by the         *)
(* notebook is a fixed-point number counted in units of 1/Scale (the       *)
(* model's stand-in for float64); divisions round down.  Scale is chosen   *)
(* so that min-max scaling of the raw tables and the rolling means are     *)
(* exact; EMA, RSI and the standard deviation are rounded.  NaN is the     *)
(* missing-value marker of pandas / numpy.                                 *)
(***************************************************************************)
EXTENDS Integers, Sequences, FiniteSets, TLC

\* ------------------------------------------------------------------ bounds

\* Largest raw table (rows of aapl.csv) the model loads.
MaxRows == 53

\* Number of distinct outcomes of the (randomly initialised) network training.
NumSeeds == 2

\* How many times the baseline cell may be executed after one (re)load.
MaxBaselineRuns == 3

\* ------------------------------------------------------- program constants

SMA5_WINDOW == 5
SMA10_WINDOW == 10
SMA20_WINDOW == 20
EMA_SPAN == 10
RSI_WINDOW == 14
VOL_WINDOW == 10
ATR_WINDOW == 14
SEQ_WINDOW == 10
HEAD_N == 10

\* One unit of value 1.0 in fixed point: 12 * 140, a multiple of every raw
\* column range of RawTables and of the window lengths 5, 10, 14, 20.
Scale == 1680

\* The missing-value marker (numpy.nan).
NaN == -1000000000

IsNaN(v) == v = NaN

OHLCV == <<"Open", "High", "Low", "Close", "Volume">>

\* Faulty variant: RSI_14 left out of the columns to rescale.
indicators_to_normalizeMutant ==
    <<"SMA_5", "SMA_10", "SMA_20", "EMA_10", "Volatility_10", "ATR_14">>

\* indicators_to_normalize of cell 4 (also the columns cell 3 adds, in order).
indicators_to_normalize ==
    <<"SMA_5", "SMA_10", "SMA_20", "EMA_10", "RSI_14", "Volatility_10", "ATR_14">>

\* ----------------------------------------------------------------- helpers

Range(s) == {s[i] : i \in DOMAIN s}

Abs(v) == IF v < 0 THEN -v ELSE v

SetMin(S) == CHOOSE m \in S : \A x \in S : m <= x

SetMax(S) == CHOOSE m \in S : \A x \in S : x <= m

RECURSIVE SumSeq(_)
SumSeq(s) == IF s = <<>> THEN 0 ELSE Head(s) + SumSeq(Tail(s))

\* Largest r with r*r <= v (the square root, rounded down), by bisection.
RECURSIVE SqrtBetween(_, _, _)
SqrtBetween(v, lo, hi) ==
    IF lo >= hi THEN lo
    ELSE LET mid == (lo + hi + 1) \div 2
         IN  IF mid * mid <= v THEN SqrtBetween(v, mid, hi)
             ELSE SqrtBetween(v, lo, mid - 1)

Sqrt(v) == SqrtBetween(v, 0, 2 * Scale)

\* ------------------------------------------------------------- data frames
\* A DataFrame is [columns |-> sequence of column names, rows |-> sequence of
\* records]; each row record has the field Date (the index) and one field per
\* column.

NRows(df) == Len(df.rows)

Column(df, c) == [i \in 1..NRows(df) |-> df.rows[i][c]]

\* df[c] = values: add or overwrite column c (values aligned by position).
WithColumn(df, c, values) ==
    [columns |-> IF c \in Range(df.columns) THEN df.columns
                 ELSE Append(df.columns, c),
     rows |-> [i \in 1..NRows(df) |->
                 [f \in DOMAIN df.rows[i] \cup {c} |->
                     IF f = c THEN values[i] ELSE df.rows[i][f]]]]

\* DataFrame.drop(columns=cs)
DropColumns(df, cs) ==
    [columns |-> SelectSeq(df.columns, LAMBDA c : c \notin cs),
     rows |-> [i \in 1..NRows(df) |->
                 [f \in DOMAIN df.rows[i] \ cs |-> df.rows[i][f]]]]

\* DataFrame.dropna(): the rows without any NaN, in their order.
DropNa(df) ==
    [columns |-> df.columns,
     rows |-> SelectSeq(df.rows,
                 LAMBDA r : \A j \in DOMAIN df.columns : ~IsNaN(r[df.columns[j]]))]

\* ---------------------------------------------------------------- CSV files
\* A CSV file is [header |-> sequence of names, lines |-> sequence of lines];
\* a line is a sequence of fields in header order; a field is <<>> (empty
\* text, how pandas writes NaN) or <<v>> (the text of number v).

NoFile == [header |-> <<>>, lines |-> <<>>, exists |-> FALSE]

ToField(v) == IF IsNaN(v) THEN <<>> ELSE <<v>>

FromField(f) == IF f = <<>> THEN NaN ELSE f[1]

\* DataFrame.to_csv(path): the index column first, then the columns.
ToCsv(df) ==
    [header |-> <<"Date">> \o df.columns,
     lines |-> [i \in 1..NRows(df) |->
                  [k \in 1..(Len(df.columns) + 1) |->
                     IF k = 1 THEN <<df.rows[i].Date>>
                     ELSE ToField(df.rows[i][df.columns[k - 1]])]],
     exists |-> TRUE]

\* Position of name c in a header.
FieldPos(header, c) == CHOOSE k \in DOMAIN header : header[k] = c

\* pd.read_csv(path, index_col='Date', parse_dates=True)
ReadCsv(file) ==
    [columns |-> SelectSeq(file.header, LAMBDA c : c # "Date"),
     rows |-> [i \in 1..Len(file.lines) |->
                 [f \in Range(file.header) |->
                     FromField(file.lines[i][FieldPos(file.header, f)])]]]

\* ------------------------------------------------------------ MinMaxScaler

\* MinMaxScaler(): a scaler that has not been fitted.
NewScaler == [fitted |-> FALSE, columns |-> <<>>, data_min |-> <<>>, data_max |-> <<>>]

\* fit: per column the minimum and maximum over the rows (needs >= 1 row);
\* NaN values are disregarded (nanmin, nanmax).
NanMin(S) == IF S \ {NaN} = {} THEN NaN ELSE SetMin(S \ {NaN})

NanMax(S) == IF S \ {NaN} = {} THEN NaN ELSE SetMax(S \ {NaN})

Fit(df) ==
    [fitted |-> TRUE,
     columns |-> df.columns,
     data_min |-> [c \in Range(df.columns) |-> NanMin(Range(Column(df, c)))],
     data_max |-> [c \in Range(df.columns) |-> NanMax(Range(Column(df, c)))]]

\* Faulty variant: the offset min_ is not added.
ScaleValueMutant(v, lo, hi, one) ==
    LET range == IF hi - lo = 0 THEN one ELSE hi - lo
    IN  IF IsNaN(v) \/ IsNaN(lo) THEN NaN ELSE (v * Scale) \div range

\* transform of one value: X * scale_ + min_ with scale_ = 1 / data_range and
\* min_ = -data_min * scale_; a zero range is replaced by 1.0.  `one` is the
\* input's unit (1 for raw prices, Scale for fixed-point values).  NaN stays NaN.
ScaleValue(v, lo, hi, one) ==
    LET range == IF hi - lo = 0 THEN one ELSE hi - lo
    IN  IF IsNaN(v) \/ IsNaN(lo) THEN NaN
        ELSE ((v * Scale) \div range) - ((lo * Scale) \div range)

\* scaler.transform(df) for a fitted scaler sc: the table of scaled values.
Transform(sc, df, one) ==
    [columns |-> df.columns,
     rows |-> [i \in 1..NRows(df) |->
                 [f \in DOMAIN df.rows[i] |->
                     IF f = "Date" THEN df.rows[i].Date
                     ELSE ScaleValue(df.rows[i][f], sc.data_min[f], sc.data_max[f], one)]]]

\* ------------------------------------------------------- rolling statistics
\* Series are sequences of values aligned with the rows of the table.

\* Series.shift(): every value moved one row down, NaN in the first row.
Shift(s) == [i \in 1..Len(s) |-> IF i = 1 THEN NaN ELSE s[i - 1]]

\* Series.diff(): s - s.shift().
Diff(s) ==
    [i \in 1..Len(s) |->
        IF i = 1 \/ IsNaN(s[i]) \/ IsNaN(s[i - 1]) THEN NaN ELSE s[i] - s[i - 1]]

WindowOf(s, i, w) == SubSeq(s, i - w + 1, i)

\* Series.rolling(window=w).mean(): min_periods = w, so the first w-1 rows and
\* every window holding a NaN give NaN.
RollingMean(s, w) ==
    [i \in 1..Len(s) |->
        IF i < w THEN NaN
        ELSE IF \E k \in (i - w + 1)..i : IsNaN(s[k]) THEN NaN
        ELSE SumSeq(WindowOf(s, i, w)) \div w]

\* Series.rolling(window=w).std(): sample standard deviation (ddof = 1).
RollingStd(s, w) ==
    [i \in 1..Len(s) |->
        IF i < w THEN NaN
        ELSE IF \E k \in (i - w + 1)..i : IsNaN(s[k]) THEN NaN
        ELSE LET win == WindowOf(s, i, w)
                 mean == SumSeq(win) \div w
                 sq == [k \in 1..w |-> (win[k] - mean) * (win[k] - mean)]
             IN  Sqrt(SumSeq(sq) \div (w - 1))]

\* Series.ewm(span=span, adjust=False).mean(): y[1] = x[1] and
\* y[i] = (1 - alpha) * y[i-1] + alpha * x[i] with alpha = 2 / (span + 1).
RECURSIVE EwmFrom(_, _, _, _)
EwmFrom(s, span, i, acc) ==
    IF i > Len(s) THEN acc
    ELSE LET y == IF i = 1 THEN s[1]
                  ELSE ((span - 1) * acc[i - 1] + 2 * s[i]) \div (span + 1)
         IN  EwmFrom(s, span, i + 1, Append(acc, y))

EwmMean(s, span) == EwmFrom(s, span, 1, <<>>)

\* The quotient of two float series values: x/0 is +-inf, 0/0 is NaN.
Inf == 1000000000

Quotient(a, b) ==
    IF IsNaN(a) \/ IsNaN(b) THEN NaN
    ELSE IF b = 0 THEN (IF a = 0 THEN NaN ELSE IF a > 0 THEN Inf ELSE -Inf)
    ELSE (a * Scale) \div b

\* 100 - (100 / (1 + rs))
RsiOfRs(rs) ==
    IF IsNaN(rs) THEN NaN
    ELSE IF rs = Inf THEN 100 * Scale
    ELSE (100 * Scale) - ((100 * Scale * Scale) \div (Scale + rs))

\* Faulty variant: the first row's missing difference is kept.
GainsMutant(delta) ==
    [i \in 1..Len(delta) |->
        IF IsNaN(delta[i]) THEN NaN ELSE IF delta[i] > 0 THEN delta[i] ELSE 0]

\* delta.where(delta > 0, 0) and -delta.where(delta < 0, 0)
Gains(delta) ==
    [i \in 1..Len(delta) |-> IF ~IsNaN(delta[i]) /\ delta[i] > 0 THEN delta[i] ELSE 0]

Losses(delta) ==
    [i \in 1..Len(delta) |-> IF ~IsNaN(delta[i]) /\ delta[i] < 0 THEN -delta[i] ELSE 0]

Rsi(close, w) ==
    LET delta == Diff(close)
        gain == RollingMean(Gains(delta), w)
        loss == RollingMean(Losses(delta), w)
    IN  [i \in 1..Len(close) |-> RsiOfRs(Quotient(gain[i], loss[i]))]

\* Faulty variant: max(axis=1, skipna=False), NaN as soon as a value is NaN.
MaxSkipNaMutant(vs) ==
    LET S == {vs[k] : k \in DOMAIN vs}
    IN  IF NaN \in S THEN NaN ELSE SetMax(S)

\* pd.concat([...], axis=1).max(axis=1): the largest of the values that are
\* not NaN.
MaxSkipNa(vs) ==
    LET S == {vs[k] : k \in DOMAIN vs} \ {NaN}
    IN  IF S = {} THEN NaN ELSE SetMax(S)

TrueRange(high, low, close) ==
    LET prev == Shift(close)
    IN  [i \in 1..Len(close) |->
            MaxSkipNa(<<high[i] - low[i],
                        IF IsNaN(prev[i]) THEN NaN ELSE Abs(high[i] - prev[i]),
                        IF IsNaN(prev[i]) THEN NaN ELSE Abs(low[i] - prev[i])>>)]

\* Cell 3: the table with the seven indicator columns added.
AddIndicators(df) ==
    LET close == Column(df, "Close")
        d1 == WithColumn(df, "SMA_5", RollingMean(close, SMA5_WINDOW))
        d2 == WithColumn(d1, "SMA_10", RollingMean(close, SMA10_WINDOW))
        d3 == WithColumn(d2, "SMA_20", RollingMean(close, SMA20_WINDOW))
        d4 == WithColumn(d3, "EMA_10", EwmMean(close, EMA_SPAN))
        d5 == WithColumn(d4, "RSI_14", Rsi(close, RSI_WINDOW))
        d6 == WithColumn(d5, "Volatility_10", RollingStd(close, VOL_WINDOW))
    IN  WithColumn(d6, "ATR_14",
            RollingMean(TrueRange(Column(df, "High"), Column(df, "Low"), close),
                        ATR_WINDOW))

\* -------------------------------------------------------------- raw tables
\* The contents of data/aapl.csv: daily rows without missing values.  The
\* model loads one table of a family given by a row count and the shape of
\* the price series.

Cycle(c, t) == c[((t - 1) % Len(c)) + 1]

\* A triangular wave whose steps are held for four rows.
Stairs(t) == Cycle(<<0, 1, 2, 3, 4, 3, 2, 1>>, ((t - 1) \div 4) + 1)

Zigzag(t) == Cycle(<<12, 14, 11, 13, 10, 13, 12>>, t)

Shapes == {"zigzag", "stairs", "plateau", "flat"}

RawClose(shape, t) ==
    CASE shape = "zigzag" -> Zigzag(t)
      [] shape = "stairs" -> 10 + Stairs(t)
      [] shape = "plateau" -> IF t \in 24..40 THEN 12 ELSE Zigzag(t)
      [] OTHER -> 12

RawRow(shape, t) ==
    LET c == RawClose(shape, t)
    IN  [Date |-> t,
         Open |-> c + Cycle(<<0, 1, -1>>, t),
         High |-> c + Cycle(<<1, 2, 1, 3>>, t),
         Low |-> c - Cycle(<<0, 2, 1, 0, 3>>, t),
         Close |-> c,
         Volume |-> Cycle(<<100, 400, 200, 300, 100>>, t)]

RawTable(shape, n) == [columns |-> OHLCV, rows |-> [t \in 1..n |-> RawRow(shape, t)]]

RowCounts == {SMA20_WINDOW, SMA20_WINDOW + 2, 41, MaxRows - 1, MaxRows}

\* -------------------------------------------------------------------- state

VARIABLES
    files,                \* data/: file name -> CSV file (NoFile when absent)
    stage,                \* the last cell of the pipeline that completed
    pc,                   \* "idle", or "grid" while the loop of cell 8 runs
    error,                \* the exception that ended the last cell run, or "none"
    seed,                 \* the outcome of the random weight initialisation
    apple_data,           \* cell 2
    normalized_data,      \* cells 2 and 3
    scaler,               \* cells 2 and 4
    data_with_indicators, \* cell 4
    data,                 \* cells 5 and 6 (read by cells 7 and 8)
    baseline_runs,        \* executions of cell 6 since data was (re)loaded
    X,                    \* cells 6, 7 and 8
    y,                    \* cells 6, 7 and 8
    window_size,          \* cells 7 and 8 (0 while unbound)
    train_size,           \* cells 7 and 8; for cell 6 the length of X_train
    predictions,          \* cell 7: [lstm |-> ..., gru |-> ...]
    mae_metric,           \* cell 7: the MeanAbsoluteError object's state
    reported,             \* cell 7: the printed lstm_mse, gru_mse, lstm_mae, gru_mae
    grid_i,               \* cell 8: combinations of the grid already evaluated
    results,              \* cell 8
    report                \* cell 8: the printed rows

vars == <<files, stage, pc, error, seed, apple_data, normalized_data, scaler,
          data_with_indicators, data, baseline_runs, X, y, window_size, train_size,
          predictions, mae_metric, reported, grid_i, results, report>>

prepVars == <<apple_data, normalized_data, scaler, data_with_indicators>>

modelVars == <<X, y, window_size, train_size>>

cell7Vars == <<predictions, mae_metric, reported>>

cell8Vars == <<grid_i, results, report>>

\* A name that is not bound yet.
Unbound == [columns |-> <<>>, rows |-> <<>>]

FileNames == {"aapl.csv", "aapl_normalized.csv", "aapl_with_indicators.csv",
              "aapl_normalized_with_indicators.csv"}

\* tf.keras.metrics.MeanAbsoluteError(): the running total and count.
NewMetric == [total |-> 0, count |-> 0]

NoReport == [lstm_mse |-> NaN, gru_mse |-> NaN, lstm_mae |-> NaN, gru_mae |-> NaN]

Init ==
    /\ \E shape \in Shapes, n \in RowCounts :
          files = [f \in FileNames |->
                     IF f = "aapl.csv" THEN ToCsv(RawTable(shape, n)) ELSE NoFile]
    /\ seed = 1
    /\ stage = 1
    /\ pc = "idle"
    /\ error = "none"
    /\ apple_data = Unbound
    /\ normalized_data = Unbound
    /\ scaler = NewScaler
    /\ data_with_indicators = Unbound
    /\ data = Unbound
    /\ baseline_runs = 0
    /\ X = <<>>
    /\ y = <<>>
    /\ window_size = 0
    /\ train_size = 0
    /\ predictions = [lstm |-> <<>>, gru |-> <<>>]
    /\ mae_metric = NewMetric
    /\ reported = NoReport
    /\ grid_i = 0
    /\ results = <<>>
    /\ report = <<>>

\* ------------------------------------------------------------------- cells

\* Cell 2 (Loader and Normalizer): read aapl.csv, fit the scaler on all its
\* columns, write the scaled table to aapl_normalized.csv.
Cell2 ==
    /\ pc = "idle"
    /\ stage = 1
    /\ LET loaded == ReadCsv(files["aapl.csv"])
           fitted == Fit(loaded)
           scaled == Transform(fitted, loaded, 1)
       IN  /\ apple_data' = loaded
           /\ scaler' = fitted
           /\ normalized_data' = scaled
           /\ files' = [files EXCEPT !["aapl_normalized.csv"] = ToCsv(scaled)]
    /\ stage' = 2
    /\ error' = "none"
    /\ UNCHANGED <<pc, seed, data_with_indicators, data, baseline_runs, modelVars,
                   cell7Vars, cell8Vars>>

\* Cell 3 (Indicator Engine): read aapl_normalized.csv, add the indicator
\* columns, write aapl_with_indicators.csv.
Cell3 ==
    /\ pc = "idle"
    /\ stage = 2
    /\ LET enriched == AddIndicators(ReadCsv(files["aapl_normalized.csv"]))
       IN  /\ normalized_data' = enriched
           /\ files' = [files EXCEPT !["aapl_with_indicators.csv"] = ToCsv(enriched)]
    /\ stage' = 3
    /\ error' = "none"
    /\ UNCHANGED <<pc, seed, apple_data, scaler, data_with_indicators, data,
                   baseline_runs, modelVars, cell7Vars, cell8Vars>>

\* data_with_indicators[cols]: the table restricted to the columns cols.
SelectColumns(df, cols) ==
    [columns |-> cols,
     rows |-> [i \in 1..NRows(df) |->
                 [f \in Range(cols) \cup {"Date"} |-> df.rows[i][f]]]]

\* data_with_indicators[cols] = values: the columns cols replaced.
AssignColumns(df, cols, values) ==
    [columns |-> df.columns,
     rows |-> [i \in 1..NRows(df) |->
                 [f \in DOMAIN df.rows[i] |->
                     IF f \in Range(cols) THEN values.rows[i][f] ELSE df.rows[i][f]]]]

\* Faulty variant: every column of kept is rescaled.
PostNormalizeMutant(kept) == Transform(Fit(kept), kept, Scale)

\* scaler.fit_transform(kept[indicators_to_normalize]) assigned back to those
\* columns of kept.
PostNormalize(kept) ==
    LET part == SelectColumns(kept, indicators_to_normalize)
    IN  AssignColumns(kept, indicators_to_normalize, Transform(Fit(part), part, Scale))

\* Cell 4 (Post-Normalizer): read aapl_with_indicators.csv, drop the rows with
\* a NaN, rescale the indicator columns with a new scaler, write the final
\* dataset.  fit_transform raises ValueError on a table without rows; the
\* rows are dropped and scaler is rebound before that.
Cell4 ==
    /\ pc = "idle"
    /\ stage = 3
    /\ LET kept == DropNa(ReadCsv(files["aapl_with_indicators.csv"]))
       IN  \/ /\ NRows(kept) = 0
              /\ data_with_indicators' = kept
              /\ scaler' = NewScaler
              /\ error' = "ValueError"
              /\ UNCHANGED <<files, stage>>
           \/ /\ NRows(kept) > 0
              /\ scaler' = Fit(SelectColumns(kept, indicators_to_normalize))
              /\ data_with_indicators' = PostNormalize(kept)
              /\ files' = [files EXCEPT !["aapl_normalized_with_indicators.csv"] =
                              ToCsv(data_with_indicators')]
              /\ stage' = 4
              /\ error' = "none"
    /\ UNCHANGED <<pc, seed, apple_data, normalized_data, data, baseline_runs,
                   modelVars, cell7Vars, cell8Vars>>

\* Cell 5 (Visualizer): load the final dataset into data (the plots do not
\* change any state).  Running it again reloads the table.
Cell5 ==
    /\ pc = "idle"
    /\ stage \in {4, 6}
    /\ data' = ReadCsv(files["aapl_normalized_with_indicators.csv"])
    /\ baseline_runs' = 0
    /\ stage' = 5
    /\ error' = "none"
    /\ UNCHANGED <<files, pc, seed, prepVars, modelVars, cell7Vars, cell8Vars>>

\* Faulty variant: shift(1), the previous day instead of the next.
ShiftUpMutant(s) == [i \in 1..Len(s) |-> IF i = 1 THEN NaN ELSE s[i - 1]]

\* Series.shift(-1): every value moved one row up, NaN in the last row.
ShiftUp(s) == [i \in 1..Len(s) |-> IF i = Len(s) THEN NaN ELSE s[i + 1]]

\* Faulty variant: the size of the test part is rounded down.
TrainCountMutant(n) == n - (n \div 5)

\* train_test_split(test_size=0.2, shuffle=False): n_test = ceil(0.2 * n) and
\* n_train = n - n_test leading samples.
TrainCount(n) == n - ((n + 4) \div 5)

\* Cell 6 (Baseline Model): add Target to data in place, drop the rows with a
\* NaN, split.  train_test_split raises ValueError when a part would be empty.
\* (The regression's coefficients and metrics are read by no other cell.)
Cell6 ==
    /\ pc = "idle"
    /\ stage \in {5, 6}
    /\ baseline_runs < MaxBaselineRuns
    /\ baseline_runs' = baseline_runs + 1
    /\ data' = DropNa(WithColumn(data, "Target", ShiftUp(Column(data, "Close"))))
    /\ X' = DropColumns(data', {"Close", "Target"})
    /\ y' = Column(data', "Target")
    /\ \/ /\ TrainCount(NRows(data')) <= 0
          /\ error' = "ValueError"
          /\ UNCHANGED <<stage, train_size>>
       \/ /\ TrainCount(NRows(data')) > 0
          /\ train_size' = TrainCount(NRows(data'))
          /\ stage' = 6
          /\ error' = "none"
    /\ UNCHANGED <<files, pc, seed, prepVars, window_size, cell7Vars, cell8Vars>>

\* ------------------------------------------------------ recurrent models

\* data.iloc[i:i + w].values: the rows as value vectors (the index is not
\* part of them); positions are 1-based here.
ValuesOf(df, from, to) ==
    [k \in 1..(to - from + 1) |->
        [f \in Range(df.columns) |-> df.rows[from + k - 1][f]]]

\* Faulty variant: the target is the Close of the last row of the window.
create_sequencesMutant(df, w) ==
    LET count == IF NRows(df) > w THEN NRows(df) - w ELSE 0
    IN  [sequences |-> [i \in 1..count |-> ValuesOf(df, i, i + w - 1)],
         targets |-> [i \in 1..count |-> df.rows[i + w - 1].Close]]

\* create_sequences(data, window_size), with w for the parameter window_size.
create_sequences(df, w) ==
    LET count == IF NRows(df) > w THEN NRows(df) - w ELSE 0
    IN  [sequences |-> [i \in 1..count |-> ValuesOf(df, i, i + w - 1)],
         targets |-> [i \in 1..count |-> df.rows[i + w].Close]]

\* int(len(X) * 0.8)
SplitPoint(n) == (n * 8) \div 10

TestPart(s, k) == SubSeq(s, k + 1, Len(s))

\* The trained network.  What a fit converges to depends on the random
\* initial weights (seed), the architecture and the hyperparameters; the model
\* takes the forecast to be the window's last Close plus a bias fixed by them.
KindIndex(kind) == IF kind = "LSTM" THEN 0 ELSE 1

TrainingBias(sd, kind, cfg) ==
    (((sd * 7 + KindIndex(kind) * 3 + cfg.window_size + (cfg.units \div 16)
        + (cfg.batch_size \div 32) * 5 + cfg.learning_rate) % 5) - 2) * 42

\* model.predict(X_test)
Predict(sd, kind, cfg, xs) ==
    [i \in 1..Len(xs) |-> xs[i][Len(xs[i])].Close + TrainingBias(sd, kind, cfg)]

\* model.evaluate: the mean squared error (in squared units).
MeanSquaredError(ys, ps) ==
    SumSeq([i \in 1..Len(ys) |-> (ys[i] - ps[i]) * (ys[i] - ps[i])]) \div Len(ys)

\* mae_metric(y_true, y_pred): update_state adds to the running total and
\* count; the call returns result() = total / count.
UpdateState(m, ys, ps) ==
    [total |-> m.total + SumSeq([i \in 1..Len(ys) |-> Abs(ys[i] - ps[i])]),
     count |-> m.count + Len(ys)]

Result(m) == IF m.count = 0 THEN 0 ELSE m.total \div m.count

\* The hyperparameters of cell 7: 50 units, batches of 64, Adam's default
\* learning rate 0.001 (learning rates are counted in units of 0.0001).
Cell7Config == [window_size |-> SEQ_WINDOW, units |-> 50, batch_size |-> 64,
                learning_rate |-> 10]

\* An iteration's sequences cannot be trained on: X_train.shape[1] raises
\* IndexError when there is no sequence, fit raises ValueError on an empty
\* training part.
TrainingError(n) ==
    IF n = 0 THEN "IndexError" ELSE IF SplitPoint(n) = 0 THEN "ValueError" ELSE "none"

\* Cell 7 (Sequence Model Trainer).
Cell7 ==
    /\ pc = "idle"
    /\ stage \in {5, 6}
    /\ LET seqs == create_sequences(data, SEQ_WINDOW)
           n == Len(seqs.sequences)
           k == SplitPoint(n)
           X_test == TestPart(seqs.sequences, k)
           y_test == TestPart(seqs.targets, k)
       IN  /\ window_size' = SEQ_WINDOW
           /\ X' = seqs.sequences
           /\ y' = seqs.targets
           /\ train_size' = k
           /\ \/ /\ TrainingError(n) # "none"
                 /\ error' = TrainingError(n)
                 /\ UNCHANGED <<stage, seed, cell7Vars>>
              \/ /\ TrainingError(n) = "none"
                 /\ \E sd \in 1..NumSeeds :
                       LET lstm_predictions == Predict(sd, "LSTM", Cell7Config, X_test)
                           gru_predictions == Predict(sd, "GRU", Cell7Config, X_test)
                           m1 == UpdateState(NewMetric, y_test, lstm_predictions)
                           m2 == UpdateState(m1, y_test, gru_predictions)
                       IN  /\ seed' = sd
                           /\ predictions' = [lstm |-> lstm_predictions,
                                              gru |-> gru_predictions]
                           /\ mae_metric' = m2
                           /\ reported' =
                                 [lstm_mse |-> MeanSquaredError(y_test, lstm_predictions),
                                  gru_mse |-> MeanSquaredError(y_test, gru_predictions),
                                  lstm_mae |-> Result(m1),
                                  gru_mae |-> Result(m2)]
                 /\ stage' = 7
                 /\ error' = "none"
    /\ UNCHANGED <<files, pc, prepVars, data, baseline_runs, cell8Vars>>

\* ------------------------------------------------------------ grid search

window_sizes == <<10, 20, 30>>

units_options == <<32, 64, 128>>

batch_sizes == <<32, 64>>

learning_rates == <<10, 5>>

GridSize == Len(window_sizes) * Len(units_options) * Len(batch_sizes) * Len(learning_rates)

\* Faulty variant: batch_size advances together with learning_rate.
CombinationMutant(k) ==
    LET j == k - 1
        nl == Len(learning_rates)
        nb == Len(batch_sizes)
        nu == Len(units_options)
    IN  [window_size |-> window_sizes[(j \div (nl * nb * nu)) + 1],
         units |-> units_options[((j \div (nl * nb)) % nu) + 1],
         batch_size |-> batch_sizes[(j % nb) + 1],
         learning_rate |-> learning_rates[(j % nl) + 1]]

\* itertools.product(...): the k-th combination (k from 1), the last
\* parameter varying fastest.
Combination(k) ==
    LET j == k - 1
        nl == Len(learning_rates)
        nb == Len(batch_sizes)
        nu == Len(units_options)
    IN  [window_size |-> window_sizes[(j \div (nl * nb * nu)) + 1],
         units |-> units_options[((j \div (nl * nb)) % nu) + 1],
         batch_size |-> batch_sizes[((j \div nl) % nb) + 1],
         learning_rate |-> learning_rates[(j % nl) + 1]]

ResultRecord(kind, cfg, mse) ==
    [model |-> kind, window_size |-> cfg.window_size, units |-> cfg.units,
     batch_size |-> cfg.batch_size, learning_rate |-> cfg.learning_rate, mse |-> mse]

\* Cell 8, up to the loop: results = [].
Cell8Start ==
    /\ pc = "idle"
    /\ stage = 7
    /\ pc' = "grid"
    /\ grid_i' = 0
    /\ results' = <<>>
    /\ \E sd \in 1..NumSeeds : seed' = sd
    /\ error' = "none"
    /\ UNCHANGED <<files, stage, prepVars, data, baseline_runs, modelVars,
                   cell7Vars, report>>

\* One iteration of the grid search loop.  An exception ends the cell.
GridIter ==
    /\ pc = "grid"
    /\ grid_i < GridSize
    /\ LET cfg == Combination(grid_i + 1)
           seqs == create_sequences(data, cfg.window_size)
           n == Len(seqs.sequences)
           k == SplitPoint(n)
           X_test == TestPart(seqs.sequences, k)
           y_test == TestPart(seqs.targets, k)
       IN  /\ window_size' = cfg.window_size
           /\ X' = seqs.sequences
           /\ y' = seqs.targets
           /\ train_size' = k
           /\ \/ /\ TrainingError(n) # "none"
                 /\ error' = TrainingError(n)
                 /\ pc' = "idle"
                 /\ UNCHANGED <<grid_i, results>>
              \/ /\ TrainingError(n) = "none"
                 /\ results' = results \o
                       <<ResultRecord("LSTM", cfg,
                            MeanSquaredError(y_test, Predict(seed, "LSTM", cfg, X_test))),
                         ResultRecord("GRU", cfg,
                            MeanSquaredError(y_test, Predict(seed, "GRU", cfg, X_test)))>>
                 /\ grid_i' = grid_i + 1
                 /\ UNCHANGED <<pc, error>>
    /\ UNCHANGED <<files, stage, seed, prepVars, data, baseline_runs, cell7Vars, report>>

\* results_df.sort_values(by="mse"): ascending; rows with equal mse are kept
\* in their order here.  The record at position k of the sorted table is the
\* one that k - 1 records precede.
SortByMse(rs) ==
    LET Before(j, i) == rs[j].mse < rs[i].mse \/ (rs[j].mse = rs[i].mse /\ j < i)
        Rank(i) == Cardinality({j \in DOMAIN rs : Before(j, i)}) + 1
    IN  [k \in 1..Len(rs) |-> rs[CHOOSE i \in DOMAIN rs : Rank(i) = k]]

\* Faulty variant: tail(n).
FirstRowsMutant(rs, n) == SubSeq(rs, IF Len(rs) < n THEN 1 ELSE Len(rs) - n + 1, Len(rs))

\* DataFrame.head(n)
FirstRows(rs, n) == SubSeq(rs, 1, IF Len(rs) < n THEN Len(rs) ELSE n)

\* Cell 8, after the loop: print the ten best configurations.
Cell8Report ==
    /\ pc = "grid"
    /\ grid_i = GridSize
    /\ report' = FirstRows(SortByMse(results), HEAD_N)
    /\ pc' = "idle"
    /\ stage' = 8
    /\ UNCHANGED <<files, error, seed, prepVars, data, baseline_runs, modelVars,
                   cell7Vars, grid_i, results>>

Next ==
    \/ Cell2
    \/ Cell3
    \/ Cell4
    \/ Cell5
    \/ Cell6
    \/ Cell7
    \/ Cell8Start
    \/ GridIter
    \/ Cell8Report

Spec == Init /\ [][Next]_vars

\* ------------------------------------------------------------------ claims

Dates(df) == [i \in 1..NRows(df) |-> df.rows[i].Date]

NormalizedFile == files["aapl_normalized.csv"]

IndicatorsFile == files["aapl_with_indicators.csv"]

FinalFile == files["aapl_normalized_with_indicators.csv"]

\* The distinct values of column c of a table.
Distinct(df, c) == Range(Column(df, c))

\* C1: once the Normalizer has written aapl_normalized.csv, every value of
\* every column lies in [0, 1]; in every column with at least two distinct raw
\* values the rows holding the raw minimum hold 0 and the rows holding the raw
\* maximum hold 1.
C1_NormalizerRange ==
    NormalizedFile.exists =>
        LET norm == ReadCsv(NormalizedFile)
        IN  /\ NRows(norm) = NRows(apple_data)
            /\ norm.columns = apple_data.columns
            /\ \A c \in Range(OHLCV) :
                  LET raw == Distinct(apple_data, c)
                      several == Cardinality(raw) >= 2
                      lowest == SetMin(raw)
                      highest == SetMax(raw)
                  IN  \A i \in 1..NRows(norm) :
                         /\ ~IsNaN(norm.rows[i][c])
                         /\ 0 <= norm.rows[i][c]
                         /\ norm.rows[i][c] <= Scale
                         /\ several =>
                               /\ apple_data.rows[i][c] = lowest => norm.rows[i][c] = 0
                               /\ apple_data.rows[i][c] = highest => norm.rows[i][c] = Scale

\* The Normalizer has run on a table with a constant column (Close) and with
\* columns of several values, whose minimum and maximum rows got 0 and 1.
C1_Witness ==
    /\ NormalizedFile.exists
    /\ Cardinality(Distinct(apple_data, "Close")) = 1
    /\ Cardinality(Distinct(apple_data, "High")) >= 3
    /\ \E i, j, k \in 1..NRows(apple_data) :
          LET norm == ReadCsv(NormalizedFile)
          IN  /\ norm.rows[i].High = 0
              /\ norm.rows[j].High = Scale
              /\ 0 < norm.rows[k].High
              /\ norm.rows[k].High < Scale

\* The rows 20..n of a table of n rows: what is left when exactly the warm-up
\* rows are removed.
AfterWarmUp(n) == [i \in 1..(n - (SMA20_WINDOW - 1)) |-> i + (SMA20_WINDOW - 1)]

\* C2: for a raw table without missing values and with at least 20 rows, the
\* rows the Post-Normalizer removes are exactly the first 19 rows; every row
\* from the 20th on is kept (stated for the runs in which the Post-Normalizer
\* completes and writes its file).
C2_OnlyWarmUpRowsRemoved ==
    (FinalFile.exists /\ NRows(apple_data) >= SMA20_WINDOW) =>
        Dates(ReadCsv(FinalFile)) = AfterWarmUp(NRows(apple_data))

\* C3: whenever the Post-Normalizer has written the final dataset, every cell
\* of it is a defined number in [0, 1], in the OHLCV columns and in each of
\* the seven indicator columns.
C3_FinalDatasetInUnitInterval ==
    FinalFile.exists =>
        /\ FinalFile.header =
              <<"Date", "Open", "High", "Low", "Close", "Volume", "SMA_5", "SMA_10",
                "SMA_20", "EMA_10", "RSI_14", "Volatility_10", "ATR_14">>
        /\ \A i \in DOMAIN FinalFile.lines : \A k \in 2..Len(FinalFile.header) :
              /\ FinalFile.lines[i][k] # <<>>
              /\ 0 <= FinalFile.lines[i][k][1]
              /\ FinalFile.lines[i][k][1] <= Scale

\* A final dataset of several rows in which an indicator takes the values 0,
\* 1 and one in between.
C3_Witness ==
    /\ FinalFile.exists
    /\ Len(FinalFile.lines) >= 3
    /\ LET final == ReadCsv(FinalFile)
       IN  \E i, j, k \in 1..NRows(final) :
              /\ final.rows[i].RSI_14 = 0
              /\ final.rows[j].RSI_14 = Scale
              /\ 0 < final.rows[k].RSI_14
              /\ final.rows[k].RSI_14 < Scale

\* The line of a CSV file that carries date d (the dates of a file are
\* distinct).
LineOf(file, d) == CHOOSE i \in DOMAIN file.lines : file.lines[i][1] = <<d>>

\* C4: the Post-Normalizer changes only the seven indicator columns: every
\* row of its output file has the date and the OHLCV values of the row of its
\* input file with the same date, and the retained rows keep their order
\* (every row comes after its predecessor in the input as well).
C4_OnlyIndicatorsChanged ==
    FinalFile.exists =>
        /\ \A i \in DOMAIN FinalFile.lines :
              /\ \E j \in DOMAIN IndicatorsFile.lines :
                    IndicatorsFile.lines[j][1] = FinalFile.lines[i][1]
              /\ \A k \in 1..(Len(OHLCV) + 1) :
                    /\ FinalFile.header[k] = IndicatorsFile.header[k]
                    /\ FinalFile.lines[i][k] =
                          IndicatorsFile.lines[LineOf(IndicatorsFile,
                                                      FinalFile.lines[i][1][1])][k]
        /\ \A i \in 1..(Len(FinalFile.lines) - 1) :
              LineOf(IndicatorsFile, FinalFile.lines[i][1][1])
                 < LineOf(IndicatorsFile, FinalFile.lines[i + 1][1][1])

\* A final dataset of several rows, fewer than its input has, in which an
\* indicator column differs from the input and the OHLCV columns range over
\* less than [0, 1].
C4_Witness ==
    /\ FinalFile.exists
    /\ Len(FinalFile.lines) >= 2
    /\ Len(FinalFile.lines) < Len(IndicatorsFile.lines)
    /\ LET final == ReadCsv(FinalFile)
           input == ReadCsv(IndicatorsFile)
       IN  /\ \E i \in 1..NRows(final) :
                 final.rows[i].SMA_20
                    # input.rows[LineOf(IndicatorsFile, final.rows[i].Date)].SMA_20
           /\ \A i \in 1..NRows(final) : final.rows[i].Close < Scale

\* The columns of a table as a set.
ColumnSet(df) == Range(df.columns)

\* C5: every stage after the Loader works on the table held by
\* the file the preceding stage wrote, never on a table another stage left in
\* memory: whenever the Baseline Model, the Sequence Model Trainer or an
\* iteration of the Hyperparameter Search runs, the table it works on is the
\* content of aapl_normalized_with_indicators.csv.
C5_EveryStageReadsPrecedingFile ==
    [][(Cell6 \/ Cell7 \/ GridIter) => data = ReadCsv(FinalFile)]_vars

\* C6: the Baseline Model's dataset built from a final dataset of n >= 2 rows:
\* exactly the last row is removed, the target of every retained row t is the
\* Close of row t+1 of the final dataset, and the features of row t are the
\* same-day values of every column but Close and Target.
C6_BaselineDataset ==
    [][(Cell6 /\ data = ReadCsv(FinalFile) /\ NRows(data) >= 2) =>
          LET final == ReadCsv(FinalFile)
              n == NRows(final)
          IN  /\ Dates(data') = SubSeq(Dates(final), 1, n - 1)
              /\ Dates(X') = Dates(data')
              /\ Len(y') = n - 1
              /\ ColumnSet(X') = ColumnSet(final) \ {"Close"}
              /\ \A t \in 1..(n - 1) :
                    /\ y'[t] = final.rows[t + 1].Close
                    /\ data'.rows[t].Target = y'[t]
                    /\ DOMAIN X'.rows[t] = DOMAIN final.rows[t] \ {"Close"}
                    /\ \A f \in DOMAIN X'.rows[t] : X'.rows[t][f] = final.rows[t][f]
      ]_vars

\* The Baseline Model has run once on a final dataset of several rows whose
\* Close changes from a row to the next.
C6_Witness ==
    /\ baseline_runs = 1
    /\ stage = 6
    /\ error = "none"
    /\ Len(FinalFile.lines) >= 3
    /\ NRows(data) = Len(FinalFile.lines) - 1
    /\ \E t \in 1..NRows(data) : data.rows[t].Target # data.rows[t].Close

\* C7: create_sequences(data, w) on a table of n rows returns max(0, n - w)
\* pairs; the i-th sequence is the w consecutive rows i..i+w-1 in their order
\* with all columns, and the i-th target is the Close of row i+w.  Checked on
\* every call the Sequence Model Trainer and the grid search make.
C7_CreateSequences ==
    [][(Cell7 \/ GridIter) =>
          LET n == NRows(data)
              w == window_size'
              count == IF n > w THEN n - w ELSE 0
          IN  /\ Len(X') = count
              /\ Len(y') = count
              /\ \A i \in 1..count :
                    /\ Len(X'[i]) = w
                    /\ \A k \in 1..w :
                          /\ DOMAIN X'[i][k] = ColumnSet(data)
                          /\ \A f \in ColumnSet(data) :
                                X'[i][k][f] = data.rows[i + k - 1][f]
                    /\ y'[i] = data.rows[i + w].Close
      ]_vars

\* A call with window 20 that returned several pairs, one of them with a
\* target that differs from the last Close of its window.
C7_Witness ==
    /\ pc = "grid"
    /\ grid_i > 0
    /\ window_size = 20
    /\ Len(X) >= 2
    /\ Len(y) = Len(X)
    /\ \E i \in DOMAIN X : y[i] # X[i][window_size].Close

\* ... and a call with window 30 on a shorter table, which returned no pair.
C7_WitnessEmpty ==
    /\ stage = 7
    /\ window_size = 30
    /\ NRows(data) < window_size
    /\ Len(X) = 0
    /\ error = "IndexError"

\* The hyperparameter combinations as the claim lists them.
ClaimedCombinations ==
    {[window_size |-> w, units |-> u, batch_size |-> b, learning_rate |-> l] :
        w \in {10, 20, 30}, u \in {32, 64, 128}, b \in {32, 64}, l \in {10, 5}}

\* The records of results that carry model kind and the combination c.
RecordsFor(kind, c) ==
    {i \in DOMAIN results :
        /\ results[i].model = kind
        /\ results[i].window_size = c.window_size
        /\ results[i].units = c.units
        /\ results[i].batch_size = c.batch_size
        /\ results[i].learning_rate = c.learning_rate}

CompleteGrid ==
    /\ Len(results) = 72
    /\ Cardinality(ClaimedCombinations) = 36
    /\ \A c \in ClaimedCombinations :
          /\ Cardinality(RecordsFor("LSTM", c)) = 1
          /\ Cardinality(RecordsFor("GRU", c)) = 1

\* C8: the grid search loop terminates, and when it finishes results holds
\* exactly 72 records, one LSTM and one GRU record for each of the 36
\* combinations, none skipped and none evaluated twice.  Termination: the
\* loop counter never passes the 36 combinations (below them an iteration is
\* due, at them the statements after the loop), and every step of a running
\* loop either ends it or evaluates the next combination.  (The loop ends by
\* finishing or, on a table too short for a window, by that iteration's
\* exception.)
C8_GridSearchComplete ==
    /\ [](pc = "grid" => grid_i <= GridSize)
    /\ [][pc = "grid" => (pc' = "idle" \/ grid_i' = grid_i + 1)]_vars
    /\ [](stage = 8 => CompleteGrid)
    /\ [](pc = "grid" =>
            /\ Len(results) = 2 * grid_i
            /\ \A c \in ClaimedCombinations :
                  /\ Cardinality(RecordsFor("LSTM", c)) <= 1
                  /\ Cardinality(RecordsFor("GRU", c)) <= 1)

\* The loop has finished on a table long enough for every window.
C8_Witness ==
    /\ stage = 8
    /\ pc = "idle"
    /\ grid_i = GridSize
    /\ Len(results) = 72
    /\ NRows(data) > 30

\* The mse values of results, and of the report.
MseOf(rs) == [i \in DOMAIN rs |-> rs[i].mse]

\* C9: the reported configurations are ordered by non-decreasing mse; the
\* report shows min(10, number of results) records, its first record has an
\* mse no larger than any recorded result, and no record left out has a
\* smaller mse than a record shown.
C9_ReportSortedByMse ==
    stage = 8 =>
        /\ Len(report) = (IF Len(results) < 10 THEN Len(results) ELSE 10)
        /\ \A i, j \in DOMAIN report : i <= j => report[i].mse <= report[j].mse
        /\ Range(report) \subseteq Range(results)
        /\ Cardinality(Range(report)) = Len(report)
        /\ \A r \in Range(results) :
              /\ report[1].mse <= r.mse
              /\ r \notin Range(report) =>
                    \A q \in Range(report) : q.mse <= r.mse

\* A report whose records do not all have the same mse, with larger mse
\* values left out, made from results that were not already in mse order.
C9_Witness ==
    /\ stage = 8
    /\ Len(report) = 10
    /\ report[1].mse < report[10].mse
    /\ \E r \in Range(results) : r.mse > report[10].mse
    /\ \E i \in 1..(Len(results) - 1) : results[i].mse > results[i + 1].mse
    /\ report[1] # results[1]

\* The mean absolute error between targets and predictions.
MeanAbsoluteError(ys, ps) ==
    SumSeq([i \in 1..Len(ys) |-> Abs(ys[i] - ps[i])]) \div Len(ys)

\* C10: the value reported as the GRU model's MAE is the mean absolute error
\* between the test targets and the GRU predictions only, and the value
\* reported as the LSTM model's MAE is the one between the test targets and
\* the LSTM predictions only.
C10_MaePerModel ==
    (stage = 7 /\ pc = "idle" /\ error = "none") =>
        LET y_test == TestPart(y, train_size)
        IN  /\ reported.lstm_mae = MeanAbsoluteError(y_test, predictions.lstm)
            /\ reported.gru_mae = MeanAbsoluteError(y_test, predictions.gru)

\* The columns whose value on a row is computed from that row and earlier
\* rows of the series: the raw columns and the indicators of cell 3.
SameDayColumns == Range(OHLCV) \cup Range(indicators_to_normalize)

\* C11: when the Baseline Model has run before the Sequence Model Trainer or
\* the Hyperparameter Search, no row of any input window they build holds a
\* value from a later row than itself: every field of a window row is one of
\* the same-day columns, so the Close of the row after the window (the
\* window's target) is not among the inputs.
C11_WindowsHoldNoFutureValue ==
    [][((Cell7 \/ GridIter) /\ baseline_runs >= 1) =>
          \A i \in DOMAIN X' :
              /\ \A k \in DOMAIN X'[i] : DOMAIN X'[i][k] \subseteq SameDayColumns
              /\ \A f \in DOMAIN X'[i][window_size'] \ SameDayColumns :
                    X'[i][window_size'][f] # y'[i]
      ]_vars

\* s[:k], the first k samples.
TrainPart(s, k) == SubSeq(s, 1, k)

\* The number k with k <= 0.8 * n < k + 1.
IsFloorOfFourFifths(k, n) == 10 * k <= 8 * n /\ 8 * n < 10 * (k + 1)

\* C12: every split is the chronological 80%-20% split: for n samples the
\* training part is the first floor(0.8 * n) samples and the test part the
\* remaining ones in their order; the parts are disjoint and together hold
\* every sample, and every training sample lies before every test sample.
\* Stated on every split the Baseline Model, the Sequence Model Trainer and a
\* grid-search iteration make without raising.
C12_ChronologicalSplit ==
    [][((Cell6 \/ Cell7 \/ GridIter) /\ error' = "none") =>
          LET n == Len(y')
              k == train_size'
          IN  /\ IsFloorOfFourFifths(k, n)
              /\ TrainPart(y', k) \o TestPart(y', k) = y'
              /\ Len(TrainPart(y', k)) + Len(TestPart(y', k)) = n
              /\ Cell6 =>
                    /\ NRows(X') = n
                    /\ \A i \in 1..k : \A j \in (k + 1)..n :
                          X'.rows[i].Date < X'.rows[j].Date
              /\ (Cell7 \/ GridIter) =>
                    /\ Len(X') = n
                    /\ TrainPart(X', k) \o TestPart(X', k) = X'
              /\ (Cell7 /\ stage' = 7) =>
                    /\ Len(predictions'.lstm) = n - k
                    /\ Len(predictions'.gru) = n - k
      ]_vars

\* The Baseline Model has split a dataset whose size is no multiple of 5 into
\* parts of several samples each.
C12_Witness ==
    /\ stage = 6
    /\ error = "none"
    /\ baseline_runs = 1
    /\ Len(y) % 5 # 0
    /\ train_size >= 2
    /\ Len(y) - train_size >= 2
    /\ NRows(data) = Len(y)

\* The true range of row t (from 1) of a table as the claim defines it.
ClaimedTrueRange(df, t) ==
    LET high == df.rows[t].High
        low == df.rows[t].Low
    IN  IF t = 1 THEN high - low
        ELSE SetMax({high - low,
                     Abs(high - df.rows[t - 1].Close),
                     Abs(low - df.rows[t - 1].Close)})

\* C13: in the Indicator Engine's output ATR_14 is undefined exactly on the
\* first 13 rows, and on every later row t it is the arithmetic mean over the
\* 14 rows ending at t of the true range: the maximum of high-low,
\* |high - previous close| and |low - previous close|, high-low alone on the
\* first row.  Stated on the file as the Indicator Engine leaves it (no later
\* stage writes it).
C13_AtrIsMeanTrueRange ==
    (stage = 3 /\ IndicatorsFile.exists) =>
        LET norm == ReadCsv(NormalizedFile)
            ind == ReadCsv(IndicatorsFile)
        IN  /\ NRows(ind) = NRows(norm)
            /\ \A t \in 1..NRows(ind) :
                  /\ t < ATR_WINDOW => IsNaN(ind.rows[t].ATR_14)
                  /\ t >= ATR_WINDOW =>
                        ind.rows[t].ATR_14 =
                           SumSeq([k \in 1..ATR_WINDOW |->
                                      ClaimedTrueRange(norm, t - ATR_WINDOW + k)])
                              \div ATR_WINDOW

\* The Indicator Engine has run on a table in which the distance to the
\* previous close decides the true range of some row, and the ATR moves.
C13_Witness ==
    /\ stage = 3
    /\ IndicatorsFile.exists
    /\ LET norm == ReadCsv(NormalizedFile)
           ind == ReadCsv(IndicatorsFile)
       IN  /\ \E t \in 2..ATR_WINDOW :
                 ClaimedTrueRange(norm, t) > norm.rows[t].High - norm.rows[t].Low
           /\ ind.rows[ATR_WINDOW].ATR_14 > 0
           /\ ind.rows[ATR_WINDOW].ATR_14 # ind.rows[ATR_WINDOW + 1].ATR_14

\* The positive and the negative part of the Close difference of row t, the
\* first row's missing difference counted as 0.
ClaimedGain(df, t) ==
    IF t > 1 /\ df.rows[t].Close > df.rows[t - 1].Close
    THEN df.rows[t].Close - df.rows[t - 1].Close ELSE 0

ClaimedLoss(df, t) ==
    IF t > 1 /\ df.rows[t].Close < df.rows[t - 1].Close
    THEN df.rows[t - 1].Close - df.rows[t].Close ELSE 0

\* The mean of f over the w rows ending at t.
ClaimedAverage(f(_, _), df, t, w) == SumSeq([k \in 1..w |-> f(df, t - w + k)]) \div w

\* The two ways of writing the index, 100 - 100 / (1 + rs) and
\* 100 * avgGain / (avgGain + avgLoss), are each rounded once per division;
\* the step rs contributes less than one rounding unit times the factor 100.
RoundingSlack == 100 + 2

\* C14: RSI_14 is undefined on the first 13 rows; on every later row, with
\* avgGain and avgLoss the 14-row means of the positive and negative Close
\* differences, it is 100 * avgGain / (avgGain + avgLoss) and in [0, 100]
\* when avgLoss > 0, it is 100 when avgLoss = 0 < avgGain, and it is undefined
\* when both are 0.  Stated on the file as the Indicator Engine leaves it.
C14_RsiFromAverages ==
    (stage = 3 /\ IndicatorsFile.exists) =>
        LET norm == ReadCsv(NormalizedFile)
            ind == ReadCsv(IndicatorsFile)
        IN  \A t \in 1..NRows(ind) :
               LET rsi == ind.rows[t].RSI_14
                   avgGain == ClaimedAverage(ClaimedGain, norm, t, RSI_WINDOW)
                   avgLoss == ClaimedAverage(ClaimedLoss, norm, t, RSI_WINDOW)
               IN  /\ t < RSI_WINDOW => IsNaN(rsi)
                   /\ (t >= RSI_WINDOW /\ avgLoss > 0) =>
                         /\ ~IsNaN(rsi)
                         /\ 0 <= rsi
                         /\ rsi <= 100 * Scale
                         /\ Abs(rsi - ((100 * Scale * avgGain) \div (avgGain + avgLoss)))
                               <= RoundingSlack
                   /\ (t >= RSI_WINDOW /\ avgLoss = 0 /\ avgGain > 0) => rsi = 100 * Scale
                   /\ (t >= RSI_WINDOW /\ avgLoss = 0 /\ avgGain = 0) => IsNaN(rsi)

\* A table whose RSI takes a value strictly between 0 and 100, the value 100
\* and, after the warm-up, no value.
C14_Witness ==
    /\ stage = 3
    /\ IndicatorsFile.exists
    /\ LET ind == ReadCsv(IndicatorsFile)
       IN  \E i, j, k \in RSI_WINDOW..NRows(ind) :
              /\ ~IsNaN(ind.rows[i].RSI_14)
              /\ 0 < ind.rows[i].RSI_14
              /\ ind.rows[i].RSI_14 < 100 * Scale
              /\ ind.rows[j].RSI_14 = 100 * Scale
              /\ IsNaN(ind.rows[k].RSI_14)

\* C15: executing the Baseline Model again, without reloading the table,
\* leaves the shared table as it was after the first execution: the same
\* rows, the same feature values and the same targets.
C15_BaselineRerunIdempotent ==
    [][(Cell6 /\ baseline_runs >= 1) =>
          /\ Dates(data') = Dates(data)
          /\ data' = data
      ]_vars

\* C16: at every point after the Normalizer has run, scaler holds the minimum
\* and maximum of each raw OHLCV column, so that it maps every value of
\* aapl_normalized.csv back to the raw value.
C16_ScalerKeepsRawFit ==
    NormalizedFile.exists =>
        /\ scaler.fitted
        /\ scaler.columns = OHLCV
        /\ \A c \in Range(OHLCV) :
              /\ scaler.data_min[c] = SetMin(Distinct(apple_data, c))
              /\ scaler.data_max[c] = SetMax(Distinct(apple_data, c))
        /\ LET norm == ReadCsv(NormalizedFile)
           IN  \A i \in 1..NRows(norm) : \A c \in Range(OHLCV) :
                  (norm.rows[i][c] * (scaler.data_max[c] - scaler.data_min[c])) \div Scale
                     + scaler.data_min[c] = apple_data.rows[i][c]

\* C17: when Low <= High holds on every row of the raw table, it holds on
\* every row of the Normalizer's output, and the true range the Indicator
\* Engine computes from that output is negative on no row.
C17_NormalizerKeepsHighAboveLow ==
    (NormalizedFile.exists
        /\ \A i \in 1..NRows(apple_data) : apple_data.rows[i].Low <= apple_data.rows[i].High) =>
        LET norm == ReadCsv(NormalizedFile)
            true_range == TrueRange(Column(norm, "High"), Column(norm, "Low"),
                                    Column(norm, "Close"))
        IN  \A i \in 1..NRows(norm) :
               /\ norm.rows[i].Low <= norm.rows[i].High
               /\ true_range[i] >= 0

====
